---- MODULE Spec2Model ----
(***************************************************************************)
(* Model of analyze_tokens.py: a one-shot script that loads a promptfoo    *)
(* results file, aggregates token usage per provider, computes percentage  *)
(* savings against the most token-intensive provider and prints a report.  *)
(*                                                                         *)
(* Conventions of the model                                                *)
(*  - a Python str is a sequence of one-character strings, so that         *)
(*    str.replace is computed character by character;                      *)
(*  - an optional JSON field is a sequence of length 0 (absent) or 1       *)
(*    (present), and dict.get(key, default) is Get(opt, default);          *)
(*  - a Python dict is the sequence of its items in insertion order, each  *)
(*    item a record [id |-> key, data |-> value];                          *)
(*  - a float that results from a division is kept as the exact fraction   *)
(*    [num, den]; cost is counted in whole units of the smallest amount.   *)
(***************************************************************************)
EXTENDS Integers, Sequences, FiniteSets, TLC

VARIABLES
    pc,             \* position of main: "start", "loaded", "extracting",
                    \* "extracted", "ranked", "exit"; for a function called on
                    \* its own: "call_rank", "rank_returned", "print_returned",
                    \* "call_format", "format_returned"
    file_state,     \* what is at the path: "missing", "invalid", "unreadable", "ok"
    document,       \* the JSON value the file holds when it parses
    results_data,   \* main's results_data (Nil before load_results returns)
    results,        \* extract_provider_data's results list
    idx,            \* number of records the for loop has processed
    provider_data,  \* the provider_id -> metrics dict
    percentages,    \* the provider_id -> savings dict
    stdout,         \* the lines printed so far
    exit_status,    \* -1 while running, else the process exit status
    raised,         \* the uncaught exception that ended the run, or "none"
    calls,          \* the functions main has called, in order
    arg,            \* argument of a direct call of format_provider_name
    ret             \* its return value

vars == <<pc, file_state, document, results_data, results, idx, provider_data,
          percentages, stdout, exit_status, raised, calls, arg, ret>>

----------------------------------------------------------------------------
(* Bounds of the model *)

\* most records in results.results
MaxRecords == 3
\* largest token count of one record
MaxTok == 2
\* most segments concatenated into an identifier given to format_provider_name
MaxSegs == 3

----------------------------------------------------------------------------
(* Strings *)

S_anthropic == <<"a","n","t","h","r","o","p","i","c",":">>
S_openai_chat == <<"o","p","e","n","a","i",":","c","h","a","t",":">>
S_openai == <<"o","p","e","n","a","i",":">>
S_azure == <<"a","z","u","r","e",":">>
S_gpt4 == <<"g","p","t","-","4">>
S_claude == <<"c","l","a","u","d","e">>
S_unknown == <<"u","n","k","n","o","w","n">>

\* the prefixes format_provider_name knows
KnownPrefixes == {S_anthropic, S_openai_chat, S_openai}

StartsWith(s, p) == Len(s) >= Len(p) /\ SubSeq(s, 1, Len(p)) = p

\* str.replace(old, ""): every non-overlapping occurrence of old, found
\* scanning from the left, is removed
RECURSIVE Remove(_, _)
Remove(s, old) ==
    IF Len(s) < Len(old) THEN s
    ELSE IF SubSeq(s, 1, Len(old)) = old
         THEN Remove(SubSeq(s, Len(old) + 1, Len(s)), old)
         ELSE <<s[1]>> \o Remove(Tail(s), old)

format_provider_name(provider_id) ==
    Remove(Remove(Remove(provider_id, S_anthropic), S_openai_chat), S_openai)

----------------------------------------------------------------------------
(* Input documents *)

Absent == <<>>
Present(v) == <<v>>
Opt(S) == {Absent} \cup {Present(v) : v \in S}
Get(opt, default) == IF opt = Absent THEN default ELSE opt[1]

ID_gpt4 == S_openai_chat \o S_gpt4
ID_claude == S_anthropic \o S_claude

\* provider ids that occur in result records
RecordIds == {ID_gpt4, ID_claude, S_unknown}

\* the numeric fields of a record: all absent, or all present with a total of
\* t tokens split into prompt and completion tokens
EmptyFields ==
    [total |-> Absent, prompt |-> Absent, completion |-> Absent,
     assertion |-> Absent, cost |-> Absent, latencyMs |-> Absent]

FullFields(t) ==
    [total |-> Present(t), prompt |-> Present(t - (t \div 2)),
     completion |-> Present(t \div 2), assertion |-> Present(1),
     cost |-> Present(t), latencyMs |-> Present(1)]

NumericFields == {EmptyFields} \cup {FullFields(t) : t \in 0..MaxTok}

\* one result record: provider.id, response.tokenUsage.{total,prompt,completion},
\* gradingResult.tokensUsed.total, response.cost, latencyMs
ResultRecords ==
    {[id |-> i, total |-> f.total, prompt |-> f.prompt, completion |-> f.completion,
      assertion |-> f.assertion, cost |-> f.cost, latencyMs |-> f.latencyMs] :
        i \in Opt(RecordIds), f \in NumericFields}

RecordSeqs == UNION {[1..n -> ResultRecords] : n \in 0..MaxRecords}

\* a parsed JSON document: not an object at all (an array), an object without
\* results.results, or an object whose results.results is a list of records
Documents ==
    {[shape |-> "array", records |-> <<>>], [shape |-> "no_results", records |-> <<>>]}
    \cup {[shape |-> "results", records |-> rs] : rs \in RecordSeqs}

Nil == [shape |-> "nil", records |-> <<>>]

----------------------------------------------------------------------------
(* Dicts in insertion order *)

Has(d, id) == \E k \in DOMAIN d : d[k].id = id
IndexOf(d, id) == CHOOSE k \in DOMAIN d : d[k].id = id

\* a fraction, and the floats 0.0 of the source
Frac(n, d) == [num |-> n, den |-> d]
Zero == Frac(0, 1)

----------------------------------------------------------------------------
(* Aggregator: extract_provider_data *)

\* a factory that starts test_count at 1
DefaultMetrics_counted ==
    [total_tokens |-> 0, prompt_tokens |-> 0, completion_tokens |-> 0,
     assertion_tokens |-> 0, cost |-> 0, test_count |-> 1, total_latency_ms |-> 0]

\* the defaultdict's factory
DefaultMetrics ==
    [total_tokens |-> 0, prompt_tokens |-> 0, completion_tokens |-> 0,
     assertion_tokens |-> 0, cost |-> 0, test_count |-> 0, total_latency_ms |-> 0]

\* result.get('provider', {}).get('id', 'unknown')
ProviderIdOf(result) == Get(result.id, S_unknown)

\* Accumulate with total_tokens fed from the prompt count
Accumulate_total_from_prompt(data, result) ==
    [total_tokens |-> data.total_tokens + Get(result.prompt, 0),
     prompt_tokens |-> data.prompt_tokens + Get(result.prompt, 0),
     completion_tokens |-> data.completion_tokens + Get(result.completion, 0),
     assertion_tokens |-> data.assertion_tokens + Get(result.assertion, 0),
     cost |-> data.cost + Get(result.cost, 0),
     test_count |-> data.test_count + 1,
     total_latency_ms |-> data.total_latency_ms + Get(result.latencyMs, 0)]

\* Accumulate counting a test only when the record reports token usage
Accumulate_count_if_usage(data, result) ==
    [total_tokens |-> data.total_tokens + Get(result.total, 0),
     prompt_tokens |-> data.prompt_tokens + Get(result.prompt, 0),
     completion_tokens |-> data.completion_tokens + Get(result.completion, 0),
     assertion_tokens |-> data.assertion_tokens + Get(result.assertion, 0),
     cost |-> data.cost + Get(result.cost, 0),
     test_count |-> data.test_count + (IF result.total = Absent THEN 0 ELSE 1),
     total_latency_ms |-> data.total_latency_ms + Get(result.latencyMs, 0)]

\* the seven += of the loop body on one provider's entry
Accumulate(data, result) ==
    [total_tokens |-> data.total_tokens + Get(result.total, 0),
     prompt_tokens |-> data.prompt_tokens + Get(result.prompt, 0),
     completion_tokens |-> data.completion_tokens + Get(result.completion, 0),
     assertion_tokens |-> data.assertion_tokens + Get(result.assertion, 0),
     cost |-> data.cost + Get(result.cost, 0),
     test_count |-> data.test_count + 1,
     total_latency_ms |-> data.total_latency_ms + Get(result.latencyMs, 0)]

\* provider_data[provider_id]: the defaultdict inserts the factory's value
\* at the end when the key is missing
WithEntry(pd, provider_id) ==
    IF Has(pd, provider_id) THEN pd
    ELSE Append(pd, [id |-> provider_id, data |-> DefaultMetrics])

\* one iteration of the for loop
LoopBody(pd, result) ==
    LET provider_id == ProviderIdOf(result)
        pd1 == WithEntry(pd, provider_id)
        k == IndexOf(pd1, provider_id)
    IN  [pd1 EXCEPT ![k].data = Accumulate(@, result)]

----------------------------------------------------------------------------
(* Ranker: calculate_percentages *)

\* max(items, key=total_tokens): the first item whose key is maximal
MaxItem(items) ==
    LET k == CHOOSE k \in DOMAIN items :
                 /\ \A j \in DOMAIN items : items[j].data.total_tokens <= items[k].data.total_tokens
                 /\ \A j \in 1..(k - 1) : items[j].data.total_tokens < items[k].data.total_tokens
    IN  items[k]

\* the share of the maximum instead of the saving
SavingsOf_share(tokens, max_tokens) ==
    IF tokens = max_tokens THEN Zero
    ELSE Frac(tokens * 100, max_tokens)

\* ((max_tokens - tokens) / max_tokens) * 100, or 0.0 for the maximum
SavingsOf(tokens, max_tokens) ==
    IF tokens = max_tokens THEN Zero
    ELSE Frac((max_tokens - tokens) * 100, max_tokens)

\* calculate_percentages without the test of a zero maximum
calculate_percentages_no_zero_test(pd) ==
    IF pd = <<>> THEN <<>>
    ELSE LET max_tokens == MaxItem(pd).data.total_tokens
         IN  [k \in DOMAIN pd |->
                 [id |-> pd[k].id,
                  savings |-> IF pd[k].data.total_tokens = max_tokens THEN Zero
                              ELSE Frac((max_tokens - pd[k].data.total_tokens) * 100, max_tokens)]]

calculate_percentages(pd) ==
    IF pd = <<>> THEN <<>>
    ELSE LET max_tokens == MaxItem(pd).data.total_tokens
         IN  IF max_tokens = 0 THEN <<>>
             ELSE [k \in DOMAIN pd |->
                      [id |-> pd[k].id,
                       savings |-> SavingsOf(pd[k].data.total_tokens, max_tokens)]]

----------------------------------------------------------------------------
(* Reporter: print_comparison_table *)

\* an insertion that puts x before the items of equal key: the order of an
\* ascending sort reversed
RECURSIVE InsertDesc_before_equal(_, _)
InsertDesc_before_equal(sorted, x) ==
    IF sorted = <<>> THEN <<x>>
    ELSE IF Head(sorted).data.total_tokens <= x.data.total_tokens
         THEN <<x>> \o sorted
         ELSE <<Head(sorted)>> \o InsertDesc_before_equal(Tail(sorted), x)

\* insertion of x into a list sorted by total_tokens descending, after every
\* item whose key is not smaller (equal keys keep their order)
RECURSIVE InsertDesc(_, _)
InsertDesc(sorted, x) ==
    IF sorted = <<>> THEN <<x>>
    ELSE IF Head(sorted).data.total_tokens < x.data.total_tokens
         THEN <<x>> \o sorted
         ELSE <<Head(sorted)>> \o InsertDesc(Tail(sorted), x)

\* sorted(items, key=total_tokens, reverse=True): stable
RECURSIVE SortedDesc(_)
SortedDesc(items) ==
    IF items = <<>> THEN <<>>
    ELSE InsertDesc(SortedDesc(SubSeq(items, 1, Len(items) - 1)), items[Len(items)])

\* a lookup whose default is 100.0
SavingsGet_default_hundred(pct, provider_id) ==
    IF Has(pct, provider_id) THEN pct[IndexOf(pct, provider_id)].savings ELSE Frac(100, 1)

\* percentages.get(provider_id, 0.0)
SavingsGet(pct, provider_id) ==
    IF Has(pct, provider_id) THEN pct[IndexOf(pct, provider_id)].savings ELSE Zero

\* format(x, '.2f') as a number of hundredths, rounding the exact fraction
\* half to even
Fmt2f(x) ==
    LET n == x.num * 100
        q == n \div x.den
        r == n % x.den
    IN  IF 2 * r > x.den THEN q + 1
        ELSE IF 2 * r = x.den THEN q + (q % 2)
        ELSE q

\* one row of the table
TableRow(item, pct, max_provider_id) ==
    [kind |-> "row",
     provider_name |-> format_provider_name(item.id),
     total_tokens |-> item.data.total_tokens,
     cost |-> item.data.cost,
     savings |-> Fmt2f(SavingsGet(pct, item.id)),
     test_count |-> item.data.test_count,
     indicator |-> (item.id = max_provider_id)]

\* one block of the detailed breakdown; the averages only when test_count > 0
DetailBlock(item) ==
    [kind |-> "detail",
     provider_name |-> format_provider_name(item.id),
     prompt_tokens |-> item.data.prompt_tokens,
     completion_tokens |-> item.data.completion_tokens,
     assertion_tokens |-> item.data.assertion_tokens,
     total_tokens |-> item.data.total_tokens,
     cost |-> item.data.cost,
     test_count |-> item.data.test_count,
     averages |-> IF item.data.test_count > 0
                  THEN Present([latency |-> Frac(item.data.total_latency_ms, item.data.test_count),
                                cost |-> Frac(item.data.cost, item.data.test_count)])
                  ELSE Absent]

\* the lines print_comparison_table writes
print_comparison_table(pd, pct) ==
    IF pd = <<>> THEN <<[kind |-> "no_provider_data"]>>
    ELSE LET max_provider_id == MaxItem(pd).id
             sorted_providers == SortedDesc(pd)
         IN  <<[kind |-> "title"],
               [kind |-> "most",
                provider_name |-> format_provider_name(max_provider_id),
                total_tokens |-> pd[IndexOf(pd, max_provider_id)].data.total_tokens],
               [kind |-> "header"]>>
             \o [k \in DOMAIN sorted_providers |->
                    TableRow(sorted_providers[k], pct, max_provider_id)]
             \o <<[kind |-> "breakdown"]>>
             \o [k \in DOMAIN sorted_providers |-> DetailBlock(sorted_providers[k])]
             \o <<[kind |-> "end"]>>

----------------------------------------------------------------------------
(* Loader: load_results *)

\* a loader that prints the error and returns an empty object instead of exiting
LoadOutcome_returns_empty(fs, doc) ==
    CASE fs = "ok" ->
            [how |-> "return", value |-> doc, lines |-> <<>>, exc |-> "none"]
      [] fs = "missing" ->
            [how |-> "return", value |-> [shape |-> "no_results", records |-> <<>>],
             lines |-> <<[kind |-> "error_not_found"]>>, exc |-> "none"]
      [] fs = "invalid" ->
            [how |-> "return", value |-> [shape |-> "no_results", records |-> <<>>],
             lines |-> <<[kind |-> "error_invalid_json"]>>, exc |-> "none"]
      [] fs = "unreadable" ->
            [how |-> "raise", value |-> Nil, lines |-> <<>>, exc |-> "OSError"]

\* what load_results does with the file: it returns the parsed document,
\* prints an error and calls sys.exit(1) for a missing file or invalid JSON,
\* and lets any other error of open() (a directory, no permission) propagate
LoadOutcome(fs, doc) ==
    CASE fs = "ok" ->
            [how |-> "return", value |-> doc, lines |-> <<>>, exc |-> "none"]
      [] fs = "missing" ->
            [how |-> "exit", value |-> Nil,
             lines |-> <<[kind |-> "error_not_found"]>>, exc |-> "SystemExit"]
      [] fs = "invalid" ->
            [how |-> "exit", value |-> Nil,
             lines |-> <<[kind |-> "error_invalid_json"]>>, exc |-> "SystemExit"]
      [] fs = "unreadable" ->
            [how |-> "raise", value |-> Nil, lines |-> <<>>, exc |-> "OSError"]

----------------------------------------------------------------------------
(* main, one action per call it makes *)

\* a status the interpreter ends with: sys.exit(1) and an uncaught exception
\* both give 1
Exit(status, exc) ==
    /\ pc' = "exit"
    /\ exit_status' = status
    /\ raised' = exc

\* print the path, then results_data = load_results(filepath)
load_results ==
    /\ pc = "start"
    /\ calls' = Append(calls, "load_results")
    /\ LET out == LoadOutcome(file_state, document)
       IN  /\ stdout' = stdout \o <<[kind |-> "loading"]>> \o out.lines
           /\ IF out.how = "return"
              THEN /\ results_data' = out.value
                   /\ pc' = "loaded"
                   /\ UNCHANGED <<exit_status, raised>>
              ELSE /\ Exit(1, IF out.how = "raise" THEN out.exc ELSE "none")
                   /\ UNCHANGED results_data
    /\ UNCHANGED <<file_state, document, results, idx, provider_data, percentages, arg, ret>>

\* extract_provider_data up to the for loop: the empty defaultdict and
\* results_data.get('results', {}).get('results', []), which raises
\* AttributeError when results_data is not a dict
extract_provider_data ==
    /\ pc = "loaded"
    /\ calls' = Append(calls, "extract_provider_data")
    /\ IF results_data.shape = "array"
       THEN /\ Exit(1, "AttributeError")
            /\ UNCHANGED <<results, idx, provider_data>>
       ELSE /\ results' = results_data.records
            /\ idx' = 0
            /\ provider_data' = <<>>
            /\ pc' = "extracting"
            /\ UNCHANGED <<exit_status, raised>>
    /\ UNCHANGED <<file_state, document, results_data, percentages, stdout, arg, ret>>

\* one iteration of the for loop over results
for_result ==
    /\ pc = "extracting"
    /\ idx < Len(results)
    /\ provider_data' = LoopBody(provider_data, results[idx + 1])
    /\ idx' = idx + 1
    /\ UNCHANGED <<pc, file_state, document, results_data, results, percentages,
                   stdout, exit_status, raised, calls, arg, ret>>

\* return dict(provider_data), and main's test of an empty mapping
check_provider_data ==
    /\ pc = "extracting"
    /\ idx = Len(results)
    /\ IF provider_data = <<>>
       THEN /\ stdout' = Append(stdout, [kind |-> "no_provider_data"])
            /\ Exit(1, "none")
       ELSE /\ pc' = "extracted"
            /\ UNCHANGED <<stdout, exit_status, raised>>
    /\ UNCHANGED <<file_state, document, results_data, results, idx, provider_data,
                   percentages, calls, arg, ret>>

\* percentages = calculate_percentages(provider_data)
call_calculate_percentages ==
    /\ pc = "extracted"
    /\ calls' = Append(calls, "calculate_percentages")
    /\ percentages' = calculate_percentages(provider_data)
    /\ pc' = "ranked"
    /\ UNCHANGED <<file_state, document, results_data, results, idx, provider_data,
                   stdout, exit_status, raised, arg, ret>>

\* print_comparison_table(provider_data, percentages), then main returns
call_print_comparison_table ==
    /\ pc = "ranked"
    /\ calls' = Append(calls, "print_comparison_table")
    /\ stdout' = stdout \o print_comparison_table(provider_data, percentages)
    /\ Exit(0, "none")
    /\ UNCHANGED <<file_state, document, results_data, results, idx, provider_data,
                   percentages, arg, ret>>

Init ==
    /\ pc = "start"
    /\ file_state \in {"missing", "invalid", "unreadable", "ok"}
    /\ document \in IF file_state = "ok" THEN Documents ELSE {Nil}
    /\ results_data = Nil
    /\ results = <<>>
    /\ idx = 0
    /\ provider_data = <<>>
    /\ percentages = <<>>
    /\ stdout = <<>>
    /\ exit_status = -1
    /\ raised = "none"
    /\ calls = <<>>
    /\ arg = <<>>
    /\ ret = <<>>

Next ==
    \/ load_results
    \/ extract_provider_data
    \/ for_result
    \/ check_provider_data
    \/ call_calculate_percentages
    \/ call_print_comparison_table

Spec == Init /\ [][Next]_vars

----------------------------------------------------------------------------
(* The functions called on their own, on any argument *)

Segments == {S_anthropic, S_openai_chat, S_openai, S_azure, S_gpt4, S_claude}

RECURSIVE Concat(_)
Concat(ss) == IF ss = <<>> THEN <<>> ELSE Head(ss) \o Concat(Tail(ss))

\* identifiers given to format_provider_name
FormatArgs == {Concat(ss) : ss \in UNION {[1..n -> Segments] : n \in 1..MaxSegs}}

\* metrics of a provider with t total tokens
MetricsWith(t) ==
    [DefaultMetrics EXCEPT !.total_tokens = t, !.prompt_tokens = t,
                           !.cost = t, !.test_count = 1]

\* provider mappings: distinct keys in any order, any token counts
Mappings ==
    {m \in UNION {[1..n -> {[id |-> i, data |-> MetricsWith(t)] :
                                i \in RecordIds, t \in 0..MaxTok}] :
                     n \in 0..Cardinality(RecordIds)} :
        \A j, k \in DOMAIN m : j # k => m[j].id # m[k].id}

fn_calculate_percentages ==
    /\ pc = "call_rank"
    /\ percentages' = calculate_percentages(provider_data)
    /\ pc' = "rank_returned"
    /\ UNCHANGED <<file_state, document, results_data, results, idx, provider_data,
                   stdout, exit_status, raised, calls, arg, ret>>

fn_print_comparison_table ==
    /\ pc = "rank_returned"
    /\ stdout' = stdout \o print_comparison_table(provider_data, percentages)
    /\ pc' = "print_returned"
    /\ UNCHANGED <<file_state, document, results_data, results, idx, provider_data,
                   percentages, exit_status, raised, calls, arg, ret>>

fn_format_provider_name ==
    /\ pc = "call_format"
    /\ ret' = format_provider_name(arg)
    /\ pc' = "format_returned"
    /\ UNCHANGED <<file_state, document, results_data, results, idx, provider_data,
                   percentages, stdout, exit_status, raised, calls, arg>>

InitFn ==
    /\ pc \in {"call_rank", "call_format"}
    /\ provider_data \in IF pc = "call_rank" THEN Mappings ELSE {<<>>}
    /\ arg \in IF pc = "call_format" THEN FormatArgs ELSE {<<>>}
    /\ file_state = "ok"
    /\ document = Nil
    /\ results_data = Nil
    /\ results = <<>>
    /\ idx = 0
    /\ percentages = <<>>
    /\ stdout = <<>>
    /\ exit_status = -1
    /\ raised = "none"
    /\ calls = <<>>
    /\ ret = <<>>

NextFn ==
    \/ fn_calculate_percentages
    \/ fn_print_comparison_table
    \/ fn_format_provider_name

SpecFn == InitFn /\ [][NextFn]_vars

----------------------------------------------------------------------------
(* Properties *)

\* record r counts for provider p: its id is p, or it has no id and p is "unknown"
AttributedTo(r, p) == r.id = Present(p) \/ (r.id = Absent /\ p = S_unknown)

\* positions of the processed records counted for provider p
RecordsOf(p) == {j \in 1..idx : AttributedTo(results[j], p)}

RECURSIVE SumOver(_, _)
SumOver(f, S) ==
    IF S = {} THEN 0
    ELSE LET j == CHOOSE j \in S : TRUE IN f[j] + SumOver(f, S \ {j})

\* response.tokenUsage.total of each record of results, 0 when absent
TotalOfRecord == [j \in DOMAIN results |-> IF results[j].total = Absent THEN 0 ELSE results[j].total[1]]

\* extract_provider_data has returned to main
Aggregated == pc \in {"extracted", "ranked"} \/ (pc = "exit" /\ "extract_provider_data" \in {calls[k] : k \in DOMAIN calls} /\ raised = "none")

\* C1: at every point of a run each provider's total_tokens is the sum of
\* response.tokenUsage.total (0 when absent) over exactly the processed records
\* attributed to it, the mapping has an entry for exactly the providers with such
\* a record, and once the mapping is returned every record has been processed;
\* no later step (ranking, reporting) alters a counter
C1_TotalTokensIsSum ==
    /\ \A k \in DOMAIN provider_data :
          /\ RecordsOf(provider_data[k].id) # {}
          /\ provider_data[k].data.total_tokens = SumOver(TotalOfRecord, RecordsOf(provider_data[k].id))
    /\ \A j \in 1..idx : \E k \in DOMAIN provider_data : AttributedTo(results[j], provider_data[k].id)
    /\ \A j, k \in DOMAIN provider_data : j # k => provider_data[j].id # provider_data[k].id
    /\ Aggregated => (idx = Len(results) /\ results = document.records)

\* a finished run in which one provider summed two records with tokens and
\* another provider is present
C1_Witness ==
    /\ exit_status = 0
    /\ Len(provider_data) >= 2
    /\ \E k \in DOMAIN provider_data :
          /\ Cardinality({j \in RecordsOf(provider_data[k].id) : TotalOfRecord[j] > 0}) >= 2
          /\ provider_data[k].data.total_tokens >= 3

\* C2: each provider's test_count is the number of processed records whose
\* provider id is that provider, a record without an id counting for "unknown",
\* whatever numeric fields the records carry
C2_TestCountIsRecordCount ==
    /\ \A k \in DOMAIN provider_data :
          provider_data[k].data.test_count = Cardinality(RecordsOf(provider_data[k].id))
    /\ (idx > 0 /\ \E j \in 1..idx : results[j].id = Absent)
          => \E k \in DOMAIN provider_data : provider_data[k].id = S_unknown

\* a finished run where "unknown" counts a record without an id that carries
\* no numeric field at all and a record whose id is literally "unknown"
C2_Witness ==
    /\ exit_status = 0
    /\ \E i, j \in 1..idx :
          /\ results[i].id = Absent /\ results[i].total = Absent /\ results[i].cost = Absent
          /\ results[i].latencyMs = Absent
          /\ results[j].id = Present(S_unknown)
    /\ \E k \in DOMAIN provider_data :
          provider_data[k].id = S_unknown /\ provider_data[k].data.test_count >= 2

\* the counters of a metrics entry
Counters == {"total_tokens", "prompt_tokens", "completion_tokens", "assertion_tokens",
             "cost", "test_count", "total_latency_ms"}

\* what one record contributes to an entry that starts at zero
Contribution(r) ==
    [total_tokens |-> IF r.total = Absent THEN 0 ELSE r.total[1],
     prompt_tokens |-> IF r.prompt = Absent THEN 0 ELSE r.prompt[1],
     completion_tokens |-> IF r.completion = Absent THEN 0 ELSE r.completion[1],
     assertion_tokens |-> IF r.assertion = Absent THEN 0 ELSE r.assertion[1],
     cost |-> IF r.cost = Absent THEN 0 ELSE r.cost[1],
     test_count |-> 1,
     total_latency_ms |-> IF r.latencyMs = Absent THEN 0 ELSE r.latencyMs[1]]

C10_Step ==
    /\ \A k \in DOMAIN provider_data :
          /\ k \in DOMAIN provider_data'
          /\ provider_data'[k].id = provider_data[k].id
          /\ \A c \in Counters : provider_data'[k].data[c] >= provider_data[k].data[c]
    /\ \A k \in DOMAIN provider_data' \ DOMAIN provider_data :
          /\ idx' = idx + 1
          /\ k = Len(provider_data) + 1
          /\ AttributedTo(results[idx'], provider_data'[k].id)
          /\ RecordsOf(provider_data'[k].id) = {}
          /\ provider_data'[k].data = Contribution(results[idx'])

\* C10: in every step of a run no entry of the mapping is removed and no counter
\* of an entry gets lower; an entry appears only when the first record of its
\* provider is processed, and then holds what that record adds to all-zero counters
C10_EntriesOnlyGrow == [][C10_Step]_vars

\* during aggregation: an entry that has grown past its first record, next to
\* another entry
C10_Witness ==
    /\ pc = "extracting"
    /\ Len(provider_data) >= 2
    /\ \E k \in DOMAIN provider_data :
          provider_data[k].data.test_count >= 2 /\ provider_data[k].data.total_tokens >= 2


\* total_tokens of the k-th provider of the mapping
Tokens(k) == provider_data[k].data.total_tokens

\* the maximum total_tokens across the providers is m
MaxTokensIs(m) ==
    /\ \E k \in DOMAIN provider_data : Tokens(k) = m
    /\ \A k \in DOMAIN provider_data : Tokens(k) <= m

\* C3: calculate_percentages returns an empty mapping exactly when its input is
\* empty or the maximum total_tokens is 0, and otherwise one entry per provider
\* of the input, in the input's order
C3_EmptyIffNoComparison ==
    pc = "rank_returned" =>
        /\ (percentages = <<>>) <=> (provider_data = <<>> \/ MaxTokensIs(0))
        /\ percentages # <<>> =>
              /\ Len(percentages) = Len(provider_data)
              /\ \A k \in DOMAIN provider_data : percentages[k].id = provider_data[k].id

\* a call on two or more providers that all have 0 tokens
C3_Witness ==
    /\ pc = "rank_returned"
    /\ Len(provider_data) >= 2
    /\ MaxTokensIs(0)
    /\ percentages = <<>>

\* x is the float 0.0 / lies strictly between 0 and 100 / is exactly 100
IsZero(x) == x.num = 0
StrictlyBetween0And100(x) == 0 < x.num /\ x.num < 100 * x.den
IsHundred(x) == x.num = 100 * x.den

\* position of the provider that achieves the maximum: the first one with the
\* maximal total_tokens
IsMaxProvider(k) ==
    /\ \A j \in DOMAIN provider_data : Tokens(j) <= Tokens(k)
    /\ \A j \in DOMAIN provider_data : j < k => Tokens(j) < Tokens(k)

\* the maximum total_tokens of a non-empty mapping
MaxTokensValue == CHOOSE m \in {Tokens(k) : k \in DOMAIN provider_data} : MaxTokensIs(m)

\* C4 as stated: in a non-empty savings mapping the maximum provider has savings
\* 0.0 and every other provider's savings lies strictly between 0 and 100
C4_OthersStrictlyBetween ==
    (pc = "ranked" /\ percentages # <<>>) =>
        \A k \in DOMAIN provider_data :
            IF IsMaxProvider(k) THEN IsZero(percentages[k].savings)
            ELSE StrictlyBetween0And100(percentages[k].savings)

\* C4 as amended: in a non-empty savings mapping every provider whose
\* total_tokens equals the maximum has savings 0.0, every provider with 0 tokens
\* has savings exactly 100, and every other provider's savings lies strictly
\* between 0 and 100 (token counts being non-negative)
C4_SavingsRange ==
    (pc = "ranked" /\ percentages # <<>>) =>
        /\ Len(percentages) = Len(provider_data)
        /\ \A k \in DOMAIN provider_data :
              /\ percentages[k].id = provider_data[k].id
              /\ MaxTokensIs(Tokens(k)) => IsZero(percentages[k].savings)
              /\ (~MaxTokensIs(Tokens(k)) /\ Tokens(k) = 0) => IsHundred(percentages[k].savings)
              /\ (~MaxTokensIs(Tokens(k)) /\ Tokens(k) # 0) =>
                     /\ StrictlyBetween0And100(percentages[k].savings)
                     /\ percentages[k].savings.num * MaxTokensValue 
                            = 100 * percentages[k].savings.den * (MaxTokensValue - Tokens(k))

\* a ranking of three providers: one at the maximum, one strictly in between
\* and one with 0 tokens
C4_Witness ==
    /\ pc = "ranked"
    /\ Len(percentages) = 3
    /\ \E j, k \in DOMAIN provider_data :
          /\ Tokens(j) = 0 /\ IsHundred(percentages[j].savings)
          /\ Tokens(k) > 0 /\ StrictlyBetween0And100(percentages[k].savings)

\* the lines of the report proper
ReportKinds == {"title", "most", "header", "row", "breakdown", "detail", "end"}
OfKind(kind) == SelectSeq(stdout, LAMBDA l : l.kind = kind)
Rows == OfKind("row")

\* extract_provider_data returned an empty mapping to main
AggregatedEmpty == Aggregated /\ provider_data = <<>>

\* C5: a run ends with exit status 1 exactly when the file does not exist, its
\* content is not valid JSON or the aggregated mapping is empty; any other run
\* prints the report and ends with exit status 0
C5_ExitStatus ==
    pc = "exit" =>
        /\ (exit_status = 1) <=> (file_state \in {"missing", "invalid"} \/ AggregatedEmpty)
        /\ exit_status # 1 => (exit_status = 0 /\ Rows # <<>>)

\* C6: format_provider_name returns its argument without one leading known
\* prefix when the argument starts with one, and the argument itself otherwise
C6_StripsOneLeadingPrefix ==
    pc = "format_returned" =>
        IF \E p \in KnownPrefixes : StartsWith(arg, p)
        THEN \E p \in KnownPrefixes : StartsWith(arg, p) /\ arg = p \o ret
        ELSE ret = arg

\* position in the mapping of the provider a row shows
ProviderOfRow(row) ==
    CHOOSE k \in DOMAIN provider_data : format_provider_name(provider_data[k].id) = row.provider_name

\* C7: the table has one row per provider, in non-increasing order of
\* total_tokens, providers with equal total_tokens in the order of the mapping;
\* exactly one row carries the marker, it is the first row, and it shows the
\* first provider of the mapping that has the maximum total_tokens, which is
\* the provider the savings mapping was computed against
C7_RowsSortedAndMarked ==
    exit_status = 0 =>
        /\ Len(Rows) = Len(provider_data)
        /\ \A k \in DOMAIN provider_data :
              \E r \in DOMAIN Rows :
                  /\ Rows[r].provider_name = format_provider_name(provider_data[k].id)
                  /\ Rows[r].total_tokens = Tokens(k)
        /\ \A r, q \in DOMAIN Rows :
              r < q =>
                  /\ Rows[r].total_tokens >= Rows[q].total_tokens
                  /\ Rows[r].total_tokens = Rows[q].total_tokens
                        => ProviderOfRow(Rows[r]) < ProviderOfRow(Rows[q])
        /\ Cardinality({r \in DOMAIN Rows : Rows[r].indicator}) = 1
        /\ Rows[1].indicator
        /\ IsMaxProvider(ProviderOfRow(Rows[1]))
        /\ percentages # <<>> => IsZero(percentages[ProviderOfRow(Rows[1])].savings)
        /\ OfKind("most")[1].provider_name = Rows[1].provider_name

\* a report on three providers where the maximum is shared by the second and
\* the third provider of the mapping and the first one has fewer tokens
C7_Witness ==
    /\ exit_status = 0
    /\ Len(Rows) = 3
    /\ Tokens(1) < Tokens(2)
    /\ Tokens(2) = Tokens(3)

\* C8: after load_results failed on a missing file or an invalid document the
\* process has exited with status 1, load_results is the only function that was
\* called, and called once, and the output is the path line and the error
\* message, with no line of the report
C8_LoaderFailureIsFatal ==
    (file_state \in {"missing", "invalid"} /\ pc # "start") =>
        /\ pc = "exit"
        /\ exit_status = 1
        /\ calls = <<"load_results">>
        /\ Len(stdout) = 2
        /\ stdout[1].kind = "loading"
        /\ stdout[2].kind \in {"error_not_found", "error_invalid_json"}
        /\ \A k \in DOMAIN stdout : stdout[k].kind \notin ReportKinds

\* the run on a missing file, after the load
C8_Witness ==
    /\ file_state = "missing"
    /\ pc = "exit"
    /\ stdout # <<>>

\* C9: when every provider of a non-empty mapping has 0 total_tokens the savings
\* mapping is empty and the table still has one row per provider, each with
\* savings 0.00%
C9_AllZeroStillRendered ==
    (exit_status = 0 /\ \A k \in DOMAIN provider_data : Tokens(k) = 0) =>
        /\ percentages = <<>>
        /\ Len(Rows) = Len(provider_data)
        /\ \A r \in DOMAIN Rows : Rows[r].savings = 0 /\ Rows[r].total_tokens = 0

\* a report on two or more providers that all have 0 tokens
C9_Witness ==
    /\ exit_status = 0
    /\ Len(provider_data) >= 2
    /\ \A k \in DOMAIN provider_data : Tokens(k) = 0
    /\ Len(Rows) >= 2

====
